---- MODULE Spec2Model ----
(***************************************************************************)
(* Solar shadow calculators (CG, CL, DS, GE variants).                     *)
(*                                                                         *)
(* Floats are modelled in fixed point: a float x is the integer nearest to *)
(* x * S.  Angles in degrees are micro-degrees, angles in radians are      *)
(* micro-radians, lengths are micrometres.  float('inf') is INF, above     *)
(* every finite value; a quotient beyond FMax overflows to +-INF as a      *)
(* double quotient beyond 1.8e308 does.  Every operation rounds to the     *)
(* nearest unit, as a double operation rounds to the nearest double, so a  *)
(* sum of products that is 1 exactly may come out one unit above 1; which  *)
(* inputs overshoot depends on the unit.                                   *)
(***************************************************************************)
EXTENDS Integers, Sequences, FiniteSets, TLC

\* ------------------------------------------------------------------------
\* Float arithmetic
\* ------------------------------------------------------------------------
S == 10^6
K == 10^3
INF == 2147483647
FMax == 2 * 10^9
TanHuge == 10^9

PI == 3141593
HALF_PI == PI \div 2
TWO_PI == 6283185

Abs(a) == IF a < 0 THEN -a ELSE a
Sgn(a) == IF a < 0 THEN -1 ELSE IF a > 0 THEN 1 ELSE 0
Max(a, b) == IF a >= b THEN a ELSE b
Min(a, b) == IF a <= b THEN a ELSE b

\* a * b / S for a, b >= 0, rounded, without leaving 32 bits
MulU(a, b) ==
  LET ah == a \div K
      al == a % K
      bh == b \div K
      bl == b % K
  IN  ah * bh + ((ah * bl + al * bh + ((al * bl) \div K) + (K \div 2)) \div K)

\* float multiplication
FMul(a, b) == Sgn(a) * Sgn(b) * MulU(Abs(a), Abs(b))

\* one decimal digit of long division: <<quotient, remainder>> after
\* bringing down a zero
DivDigit(p, b) == <<10 * p[1] + ((10 * p[2]) \div b), (10 * p[2]) % b>>

\* a * S / b rounded to nearest, for a >= 0 and 0 < b < 2 * 10^8
LongDiv(a, b) ==
  LET p0 == <<a \div b, a % b>>
      p1 == DivDigit(p0, b)
      p2 == DivDigit(p1, b)
      p3 == DivDigit(p2, b)
      p4 == DivDigit(p3, b)
      p5 == DivDigit(p4, b)
      p6 == DivDigit(p5, b)
  IN  p6[1] + (IF 2 * p6[2] >= b THEN 1 ELSE 0)

\* a * S / b for a >= 0 and b >= 2 * 10^8: the divisor keeps six digits
WideDiv(a, b) ==
  LET bk == b \div K
  IN  (a \div bk) * K + (((a % bk) * K) \div bk)

\* float division a / b for b # 0; overflow gives +-INF
FDiv(a, b) ==
  IF Abs(a) \div Abs(b) >= FMax \div S
  THEN Sgn(a) * Sgn(b) * INF
  ELSE IF Abs(b) < 2 * 10^8
  THEN Sgn(a) * Sgn(b) * LongDiv(Abs(a), Abs(b))
  ELSE Sgn(a) * Sgn(b) * WideDiv(Abs(a), Abs(b))

\* results of operations that may raise; divided records that a float
\* division was evaluated
Ok(v) == [raised |-> "none", value |-> v, divided |-> FALSE]
Raise(e) == [raised |-> e, value |-> 0, divided |-> FALSE]

\* Python's a / b
truediv(a, b) ==
  IF b = 0 THEN [raised |-> "ZeroDivisionError", value |-> 0, divided |-> TRUE]
  ELSE [raised |-> "none", value |-> FDiv(a, b), divided |-> TRUE]

\* n / d for integers n and 0 < d < 2000
IntDiv(n, d) == Sgn(n) * ((Abs(n) \div d) * S + (((Abs(n) % d) * S + (d \div 2)) \div d))

\* (x / d) * n for a float x >= 0 and integers n and 0 < d < 4000
TimesOver(x, n, d) ==
  Sgn(n) * ((x \div d) * Abs(n) + (((x % d) * Abs(n) + (d \div 2)) \div d))

\* math.radians: d * 0.017453293
radians(d) ==
  Sgn(d) * (MulU(Abs(d), 17453) + (((Abs(d) \div K) * 293 + (S \div 2)) \div S))

\* math.degrees: r * 57.29578
degrees(r) == FMul(r, 57295780)

\* sine and cosine series on [0, pi/4]
SinK(y) ==
  LET y2 == FMul(y, y)
      t1 == S - (y2 \div 72)
      t2 == S - (FMul(y2, t1) \div 42)
      t3 == S - (FMul(y2, t2) \div 20)
      t4 == S - (FMul(y2, t3) \div 6)
  IN  FMul(y, t4)

CosK(y) ==
  LET y2 == FMul(y, y)
      t1 == S - (y2 \div 56)
      t2 == S - (FMul(y2, t1) \div 30)
      t3 == S - (FMul(y2, t2) \div 12)
  IN  S - (FMul(y2, t3) \div 2)

\* sine on [0, pi/2]
SinQ(y) == IF 4 * y <= PI THEN SinK(y) ELSE CosK(HALF_PI - y)

\* math.sin, math.cos, math.tan (radians)
sin(x) ==
  LET r == x % TWO_PI
  IN  IF r <= HALF_PI THEN SinQ(r)
      ELSE IF r <= PI THEN SinQ(PI - r)
      ELSE IF r <= PI + HALF_PI THEN -SinQ(r - PI)
      ELSE -SinQ(TWO_PI - r)

cos(x) == sin(x + HALF_PI)

\* s / c; tan(pi/2) is finite in floats (the float nearest pi/2 is below
\* it): the quotient saturates at TanHuge
SinOverCos(s, c) ==
  IF c = 0 \/ Abs(s) \div Abs(c) >= TanHuge \div S
  THEN Sgn(s) * (IF c >= 0 THEN 1 ELSE -1) * TanHuge
  ELSE FDiv(s, c)

tan(x) == SinOverCos(sin(x), cos(x))

\* one bisection step of the inverse sine: p = <<lo, hi>> with
\* SinQ(lo) <= x, halved
Bisect(x, p) ==
  LET mid == (p[1] + p[2]) \div 2
  IN  IF SinQ(mid) <= x THEN <<mid, p[2]>> ELSE <<p[1], mid>>

Bisect3(x, p) == Bisect(x, Bisect(x, Bisect(x, p)))

\* the end of the last interval the inverse sine settles on
Settle(x, p) == IF SinQ(p[2]) <= x THEN p[2] ELSE p[1]

\* three halvings of each interval of P
Halve3(x, P) == {Bisect3(x, p) : p \in P}

\* inverse sine on [0, S]: 21 halvings of [0, pi/2] leave one unit
AsinQ(x) ==
  CHOOSE a \in {Settle(x, p) : p \in
      Halve3(x, Halve3(x, Halve3(x, Halve3(x, Halve3(x, Halve3(x,
        Halve3(x, {<<0, HALF_PI>>})))))))} : TRUE

\* the other angle with the same sine, in (pi/2, 3*pi/2)
asin_supplement(x) ==
  IF x > S \/ x < -S THEN Raise("ValueError")
  ELSE Ok(PI - Sgn(x) * AsinQ(Abs(x)))

\* math.asin: ValueError (math domain error) outside [-1, 1]
asin(x) ==
  IF x > S \/ x < -S THEN Raise("ValueError")
  ELSE Ok(Sgn(x) * AsinQ(Abs(x)))


\* math.degrees of an inverse sine that may have raised
degrees_of(a) == IF a.raised # "none" THEN a ELSE Ok(degrees(a.value))

\* sin(lat) * sin(dec) + cos(lat) * cos(dec) * cos(hour), all in radians
sin_alpha(lat_rad, dec_rad, hour_rad) ==
  FMul(sin(lat_rad), sin(dec_rad))
    + FMul(FMul(cos(lat_rad), cos(dec_rad)), cos(hour_rad))

\* 23.45 * sin(radians(360 * (284 + n) / 365)), n an integer
Cooper_from_january(n) == FMul(23450000, sin(radians(IntDiv(360 * n, 365))))

Cooper(n) == FMul(23450000, sin(radians(IntDiv(360 * (284 + n), 365))))

\* ------------------------------------------------------------------------
\* CL: SolarShadowAnalyzer
\* ------------------------------------------------------------------------
CL_seasons_of_2024 ==
  << [label |-> "Solsticio de Verao", day |-> 356, info |-> "Verao (21 Dez)"],
     [label |-> "Equinocio de Outono", day |-> 81, info |-> "Outono (21 Mar)"],
     [label |-> "Solsticio de Inverno", day |-> 173, info |-> "Inverno (21 Jun)"],
     [label |-> "Equinocio de Primavera", day |-> 267, info |-> "Primavera (23 Set)"] >>

CL_seasons ==
  << [label |-> "Solsticio de Verao", day |-> 355, info |-> "Verao (21 Dez)"],
     [label |-> "Equinocio de Outono", day |-> 80, info |-> "Outono (21 Mar)"],
     [label |-> "Solsticio de Inverno", day |-> 172, info |-> "Inverno (21 Jun)"],
     [label |-> "Equinocio de Primavera", day |-> 266, info |-> "Primavera (23 Set)"] >>

solar_declination_in_radians(day_of_year) ==
  FMul(23450000, sin(IntDiv(360 * (284 + day_of_year), 365)))

solar_declination(day_of_year) == Cooper(day_of_year)

\* default of the hour_angle parameter of solar_elevation
solar_elevation_hour_angle == 0

solar_elevation(self_latitude, declination, hour_angle) ==
  degrees_of(asin(sin_alpha(radians(self_latitude), radians(declination),
                            radians(hour_angle))))

shadow_length_below_horizon_only(self_obstacle_height, solar_elevation_deg) ==
  IF solar_elevation_deg < 0 THEN Ok(INF)
  ELSE truediv(self_obstacle_height, tan(radians(solar_elevation_deg)))

shadow_length_validated(self_obstacle_height, solar_elevation_deg) ==
  IF self_obstacle_height <= 0 THEN Raise("ValueError")
  ELSE IF solar_elevation_deg <= 0 THEN Ok(INF)
  ELSE truediv(self_obstacle_height, tan(radians(solar_elevation_deg)))

shadow_length(self_obstacle_height, solar_elevation_deg) ==
  IF solar_elevation_deg <= 0 THEN Ok(INF)
  ELSE truediv(self_obstacle_height, tan(radians(solar_elevation_deg)))

\* ------------------------------------------------------------------------
\* DS
\* ------------------------------------------------------------------------
datas_estacoes ==
  << [label |-> "Solsticio de Verao", day |-> 355, info |-> "2023-12-21"],
     [label |-> "Solsticio de Inverno", day |-> 172, info |-> "2023-06-21"],
     [label |-> "Equinocio de Primavera", day |-> 266, info |-> "2023-09-23"],
     [label |-> "Equinocio de Outono", day |-> 79, info |-> "2023-03-20"] >>

calcular_declinacao_solar(dia_ano) == Cooper(dia_ano)

calcular_elevacao_solar(latitude_, declinacao, angulo_horario) ==
  degrees_of(asin(sin_alpha(radians(latitude_), radians(declinacao),
                            radians(angulo_horario))))

calcular_comprimento_sombra_produto(altura, elevacao_solar_) ==
  IF elevacao_solar_ <= 0 THEN Ok(INF)
  ELSE Ok(FMul(altura, tan(radians(elevacao_solar_))))

calcular_comprimento_sombra(altura, elevacao_solar_) ==
  IF elevacao_solar_ <= 0 THEN Ok(INF)
  ELSE truediv(altura, tan(radians(elevacao_solar_)))

\* ------------------------------------------------------------------------
\* GE (declination, hour angle and elevation in radians)
\* ------------------------------------------------------------------------
GE_seasons_canonical ==
  << [label |-> "Solsticio de Verao (21 Dez)", day |-> 355, info |-> ""],
     [label |-> "Equinocio de Outono (20 Mar)", day |-> 79, info |-> ""],
     [label |-> "Solsticio de Inverno (21 Jun)", day |-> 172, info |-> ""],
     [label |-> "Equinocio de Primavera (22 Set)", day |-> 265, info |-> ""] >>

GE_seasons ==
  << [label |-> "Solsticio de Verao (21 Dez)", day |-> 355, info |-> ""],
     [label |-> "Solsticio de Inverno (21 Jun)", day |-> 172, info |-> ""],
     [label |-> "Equinocio de Primavera (22 Set)", day |-> 265, info |-> ""],
     [label |-> "Equinocio de Outono (20 Mar)", day |-> 79, info |-> ""] >>

calculate_solar_declination_in_degrees(day_of_year) ==
  degrees(FMul(409000, sin(TimesOver(TWO_PI, day_of_year, 365) - 1390000)))

calculate_solar_declination_unshifted(day_of_year) ==
  FMul(409000, sin(TimesOver(TWO_PI, day_of_year, 365)))

calculate_solar_declination(day_of_year) ==
  FMul(409000, sin(TimesOver(TWO_PI, day_of_year, 365) - 1390000))

calculate_hour_angle_of_longitude(local_time_decimal, longitude_, standard_meridian) ==
  radians(15 * (local_time_decimal - 12 * S) + (longitude_ - standard_meridian))

calculate_hour_angle(local_time_decimal, longitude_, standard_meridian) == 0

\* elevation_rad if elevation_rad > 0 else 0
positive_or_zero(a) ==
  IF a.raised # "none" THEN a ELSE Ok(IF a.value > 0 THEN a.value ELSE 0)

calculate_solar_elevation(latitude_, declination, hour_angle) ==
  positive_or_zero(asin(Max(-S, Min(S,
    sin_alpha(radians(latitude_), declination, hour_angle)))))

calculate_shadow_length(obstacle_height_, solar_elevation_) ==
  IF solar_elevation_ <= 0 THEN Ok(INF)
  ELSE truediv(obstacle_height_, tan(solar_elevation_))

\* ------------------------------------------------------------------------
\* CG
\* ------------------------------------------------------------------------
estacoes ==
  << [label |-> "Solsticio de Verao", dia |-> 21, mes |-> 12],
     [label |-> "Equinocio de Outono", dia |-> 20, mes |-> 3],
     [label |-> "Solsticio de Inverno", dia |-> 21, mes |-> 6],
     [label |-> "Equinocio de Primavera", dia |-> 22, mes |-> 9] >>

\* days of the months of 2025, and the days before each month
MonthDays == <<31, 28, 31, 30, 31, 30, 31, 31, 30, 31, 30, 31>>
DaysBefore == <<0, 31, 59, 90, 120, 151, 181, 212, 243, 273, 304, 334>>

\* (datetime(2025, mes, dia) - datetime(2025, 1, 1)).days
DayOfYear2025_from_zero(dia, mes) ==
  IF mes \in 1..12 /\ dia >= 1 /\ dia <= MonthDays[mes]
  THEN Ok(DaysBefore[mes] + (dia - 1))
  ELSE Raise("ValueError")

\* (datetime(2025, mes, dia) - datetime(2025, 1, 1)).days + 1; ValueError
\* when (dia, mes) is no date of 2025
DayOfYear2025(dia, mes) ==
  IF mes \in 1..12 /\ dia >= 1 /\ dia <= MonthDays[mes]
  THEN Ok(DaysBefore[mes] + (dia - 1) + 1)
  ELSE Raise("ValueError")

\* the declination of day n, if the date was one
CooperOf(n) == IF n.raised # "none" THEN n ELSE Ok(Cooper(n.value))

declinacao_solar(dia, mes) == CooperOf(DayOfYear2025(dia, mes))

elevacao_solar(lat, decl) == 90 * S - Abs(lat - decl)

comprimento_sombra_at_or_above_zenith(altura, elevacao_graus) ==
  IF elevacao_graus >= 90 * S THEN Ok(INF)
  ELSE truediv(altura, tan(radians(elevacao_graus)))

comprimento_sombra(altura, elevacao_graus) ==
  truediv(altura, tan(radians(elevacao_graus)))

\* ------------------------------------------------------------------------
\* Inputs
\* ------------------------------------------------------------------------
\* 21 deg 44' 21.3" S, 48 deg 06' 21.4" W, 1.65 m
ReferenceLatitude == -21739250
ReferenceLongitude == -48105944
ReferenceHeight == 1650000
\* the reference latitude to two decimals, -21.74
RoundedLatitude == -2174 * 10^4

LatStep == 12 * S
MaxLatIdx == 6
LonStep == 45 * S
MaxLonIdx == 1
HeightStep == S
MaxHeightIdx == 2
MaxCalls == 2

Progs == {"CG", "CL", "DS", "GE"}
Latitudes ==
  {ReferenceLatitude, RoundedLatitude} \cup {k * LatStep : k \in (-MaxLatIdx)..MaxLatIdx}
Longitudes == {ReferenceLongitude} \cup {k * LonStep : k \in 0..MaxLonIdx}
Heights == {ReferenceHeight} \cup {k * HeightStep : k \in 1..MaxHeightIdx}

\* ------------------------------------------------------------------------
\* State
\* ------------------------------------------------------------------------
VARIABLES
  prog,             \* the script that runs
  latitude,         \* latitude_deg / self.latitude / latitude_decimal / latitude
  longitude,        \* longitude_deg / self.longitude / longitude
  obstacle_height,  \* altura_obstaculo / self.obstacle_height / obstacle_height
  seasons,          \* estacoes / self.seasons / datas_estacoes / seasons
  pc,               \* "idle", "loop", "raised", "report" or "call"
  i,                \* reference points the loop has consumed
  results,          \* resultados / results / shadow_results with calculation_details
  raised,           \* the exception that ended the run, or "none"
  returned,         \* CL: what the calls of calculate_seasonal_shadows returned
  call,             \* the function call made last
  prev,             \* the call before it
  pending,          \* per reference point, what a computation in flight holds
  table             \* the rows of the report's table of results

vars == <<prog, latitude, longitude, obstacle_height, seasons, pc, i, results,
          raised, returned, call, prev, pending, table>>

NoCall == [fn |-> "none"]

SeasonsOf(p) ==
  IF p = "CG" THEN estacoes
  ELSE IF p = "CL" THEN CL_seasons
  ELSE IF p = "DS" THEN datas_estacoes
  ELSE GE_seasons

\* the entries whose shadow is not longer than x
NotLonger(d, x) == {j \in 1..Len(d) : d[j].shadow_length <= x}

DictSetByShadow(d, key, entry) ==
  SubSeq(d, 1, Cardinality(NotLonger(d, entry.shadow_length)))
    \o <<entry>>
    \o SubSeq(d, Cardinality(NotLonger(d, entry.shadow_length)) + 1, Len(d))

DictSetOneKey(d, key, entry) == <<entry>>

\* d[key] = entry on a dict, which keeps insertion order
DictSet(d, key, entry) ==
  IF \E j \in 1..Len(d) : d[j].label = key
  THEN [j \in 1..Len(d) |-> IF d[j].label = key THEN entry ELSE d[j]]
  ELSE Append(d, entry)

Labels(d) == [j \in 1..Len(d) |-> d[j].label]

Init ==
  /\ prog \in Progs
  /\ latitude \in Latitudes
  /\ longitude \in Longitudes
  /\ obstacle_height \in Heights
  /\ seasons = SeasonsOf(prog)
  /\ pc = IF prog = "CL" THEN "idle" ELSE "loop"
  /\ i = 0
  /\ results = <<>>
  /\ raised = "none"
  /\ returned = <<>>
  /\ call = NoCall
  /\ prev = NoCall
  /\ pending = <<>>
  /\ table = <<>>

\* the outcome of one iteration: the exception it raises, or the entry it stores
Stored(e) == [raised |-> "none", entry |-> e]
Aborted(x) == [raised |-> x, entry |-> [label |-> ""]]

\* results[season] = {...}, unless the elevation or the shadow raised
Entry(label, info, declination, hour_angle, elevation, shadow) ==
  IF elevation.raised # "none" THEN Aborted(elevation.raised)
  ELSE IF shadow.raised # "none" THEN Aborted(shadow.raised)
  ELSE Stored([label |-> label, declination |-> declination,
               elevation |-> elevation.value, shadow_length |-> shadow.value,
               hour_angle |-> hour_angle, info |-> info])

\* CL: shadow_len = self.shadow_length(elevation) and the entry
CL_shadow(data, self_obstacle_height, declination, elevation) ==
  Entry(data.label, data.info, declination, solar_elevation_hour_angle,
        elevation, shadow_length(self_obstacle_height, elevation.value))

\* CL: elevation = self.solar_elevation(declination) and what follows
CL_elevation(data, self_latitude, self_obstacle_height, declination) ==
  CL_shadow(data, self_obstacle_height, declination,
            solar_elevation(self_latitude, declination, solar_elevation_hour_angle))

CL_iteration_of_call(data, self_latitude, self_obstacle_height) ==
  CL_elevation(data, self_latitude, self_obstacle_height + Len(returned) * S,
               solar_declination(data.day))

\* one iteration of the loop of calculate_seasonal_shadows
CL_iteration(data, self_latitude, self_obstacle_height) ==
  CL_elevation(data, self_latitude, self_obstacle_height,
               solar_declination(data.day))

DS_shadow(info, altura_obstaculo, declinacao, elevacao) ==
  Entry(info.label, info.info, declinacao, 0, elevacao,
        calcular_comprimento_sombra(altura_obstaculo, elevacao.value))

DS_elevation(info, latitude_decimal, altura_obstaculo, declinacao) ==
  DS_shadow(info, altura_obstaculo, declinacao,
            calcular_elevacao_solar(latitude_decimal, declinacao, 0))

\* one iteration of the loop over datas_estacoes
DS_iteration(info, latitude_decimal, altura_obstaculo) ==
  DS_elevation(info, latitude_decimal, altura_obstaculo,
               calcular_declinacao_solar(info.day))

\* GE: shadow_results[season] with calculation_details[season], which holds
\* degrees
GE_shadow(season, obstacle_height_, declination, hour_angle, elevation) ==
  Entry(season.label, season.info, degrees(declination), degrees(hour_angle),
        degrees_of(elevation),
        calculate_shadow_length(obstacle_height_, elevation.value))

GE_elevation(season, latitude_, obstacle_height_, declination, hour_angle) ==
  GE_shadow(season, obstacle_height_, declination, hour_angle,
            calculate_solar_elevation(latitude_, declination, hour_angle))

GE_iteration_at_clock_noon(season, latitude_, longitude_, obstacle_height_) ==
  GE_elevation(season, latitude_, obstacle_height_,
               calculate_solar_declination(season.day),
               calculate_hour_angle_of_longitude(12 * S, longitude_, -45 * S))

\* one iteration of the loop over seasons
GE_iteration(season, latitude_, longitude_, obstacle_height_) ==
  GE_elevation(season, latitude_, obstacle_height_,
               calculate_solar_declination(season.day),
               calculate_hour_angle(12 * S, longitude_, -45 * S))

\* CG: resultados[estacao] = {...}, unless a call raised
CG_entry(estacao, decl, elev, sombra) ==
  IF decl.raised # "none" THEN Aborted(decl.raised)
  ELSE IF sombra.raised # "none" THEN Aborted(sombra.raised)
  ELSE Stored([label |-> estacao.label, declination |-> decl.value,
               elevation |-> elev, shadow_length |-> sombra.value])

CG_shadow(estacao, altura_obstaculo, decl, elev) ==
  CG_entry(estacao, decl, elev, comprimento_sombra(altura_obstaculo, elev))

CG_elevation(estacao, latitude_deg, altura_obstaculo, decl) ==
  CG_shadow(estacao, altura_obstaculo, decl, elevacao_solar(latitude_deg, decl.value))

\* one iteration of the loop over estacoes
CG_iteration(estacao, latitude_deg, altura_obstaculo) ==
  CG_elevation(estacao, latitude_deg, altura_obstaculo,
               declinacao_solar(estacao.dia, estacao.mes))

\* the loop body's effect on the run
Iterate(out) ==
  IF out.raised # "none"
  THEN /\ raised' = out.raised
       /\ pc' = "raised"
       /\ UNCHANGED <<i, results>>
  ELSE /\ results' = DictSet(results, out.entry.label, out.entry)
       /\ i' = i + 1
       /\ UNCHANGED <<raised, pc>>

\* the method entered with the mapping of the call before
CL_call_keeping_results ==
  /\ prog = "CL" /\ pc = "idle" /\ Len(returned) < MaxCalls
  /\ i' = 0
  /\ pc' = "loop"
  /\ UNCHANGED <<table, pending, prog, latitude, longitude, obstacle_height, seasons,
                 raised, results, returned, call, prev>>

\* CL: calculate_seasonal_shadows is entered: results = {}
CL_call ==
  /\ prog = "CL" /\ pc = "idle" /\ Len(returned) < MaxCalls
  /\ results' = <<>>
  /\ i' = 0
  /\ pc' = "loop"
  /\ UNCHANGED <<table, pending, prog, latitude, longitude, obstacle_height, seasons, raised,
                 returned, call, prev>>

CL_step ==
  /\ prog = "CL" /\ pc = "loop" /\ i < Len(seasons)
  /\ Iterate(CL_iteration(seasons[i + 1], latitude, obstacle_height))
  /\ UNCHANGED <<table, pending, prog, latitude, longitude, obstacle_height, seasons, returned,
                 call, prev>>

\* CL: return results
CL_return ==
  /\ prog = "CL" /\ pc = "loop" /\ i = Len(seasons)
  /\ returned' = Append(returned, results)
  /\ pc' = "idle"
  /\ UNCHANGED <<table, pending, prog, latitude, longitude, obstacle_height, seasons, i, results,
                 raised, call, prev>>

DS_step ==
  /\ prog = "DS" /\ pc = "loop" /\ i < Len(seasons)
  /\ Iterate(DS_iteration(seasons[i + 1], latitude, obstacle_height))
  /\ UNCHANGED <<table, pending, prog, latitude, longitude, obstacle_height, seasons, returned,
                 call, prev>>

GE_step ==
  /\ prog = "GE" /\ pc = "loop" /\ i < Len(seasons)
  /\ Iterate(GE_iteration(seasons[i + 1], latitude, longitude, obstacle_height))
  /\ UNCHANGED <<table, pending, prog, latitude, longitude, obstacle_height, seasons, returned,
                 call, prev>>

CG_step ==
  /\ prog = "CG" /\ pc = "loop" /\ i < Len(seasons)
  /\ Iterate(CG_iteration(seasons[i + 1], latitude, obstacle_height))
  /\ UNCHANGED <<table, pending, prog, latitude, longitude, obstacle_height, seasons, returned,
                 call, prev>>

\* f"{x:.2f}": the digits of x to two decimals, "inf" for the float infinity
format_2f(x) ==
  IF x = INF THEN [text |-> "inf", hundredths |-> 0]
  ELSE [text |-> "%.2f",
        hundredths |-> Sgn(x) * ((Abs(x) + 5000) \div 10000)]

\* f"{x:.2f}" followed by a unit
format_2f_unit(f, unit) == [text |-> f.text \o unit, hundredths |-> f.hundredths]

Words(text) == [text |-> text, hundredths |-> 0]

\* CL: <td>{data['shadow_length']:.2f} m</td>
CL_row(data) ==
  [label |-> data.label, shadow |-> format_2f_unit(format_2f(data.shadow_length), " m")]

\* DS: 'Infinita (Sol abaixo do horizonte)' if ... == float('inf') else
\* f"{...:.2f} metros"
DS_row(info) ==
  [label |-> info.label,
   shadow |-> IF info.shadow_length = INF
              THEN Words("Infinita (Sol abaixo do horizonte)")
              ELSE format_2f_unit(format_2f(info.shadow_length), " metros")]

\* GE: f'{length:.2f} m' if length != float('inf') else 'Sombra infinita ...'
GE_row(entry) ==
  [label |-> entry.label,
   shadow |-> IF entry.shadow_length # INF
              THEN format_2f_unit(format_2f(entry.shadow_length), " m")
              ELSE Words("Sombra infinita (Sol abaixo do horizonte)")]

\* CG: Comprimento da sombra = {val['sombra']:.2f} m
CG_row(val) ==
  [label |-> val.label, shadow |-> format_2f_unit(format_2f(val.shadow_length), " m")]

\* CL: generate_html_report, with the results calculate_seasonal_shadows
\* returned
CL_generate_html_report ==
  /\ prog = "CL" /\ pc = "idle" /\ Len(returned) > 0
  /\ table' = [j \in 1..Len(returned[Len(returned)]) |->
                 CL_row(returned[Len(returned)][j])]
  /\ pc' = "report"
  /\ UNCHANGED <<pending, prog, latitude, longitude, obstacle_height, seasons, i,
                 results, raised, returned, call, prev>>

\* DS: html_template, after the loop
DS_html_template ==
  /\ prog = "DS" /\ pc = "loop" /\ i = Len(seasons)
  /\ table' = [j \in 1..Len(results) |-> DS_row(results[j])]
  /\ pc' = "report"
  /\ UNCHANGED <<pending, prog, latitude, longitude, obstacle_height, seasons, i,
                 results, raised, returned, call, prev>>

\* GE: html_content, after the loop
GE_html_content ==
  /\ prog = "GE" /\ pc = "loop" /\ i = Len(seasons)
  /\ table' = [j \in 1..Len(results) |-> GE_row(results[j])]
  /\ pc' = "report"
  /\ UNCHANGED <<pending, prog, latitude, longitude, obstacle_height, seasons, i,
                 results, raised, returned, call, prev>>

\* CG: html, after the loop
CG_html ==
  /\ prog = "CG" /\ pc = "loop" /\ i = Len(seasons)
  /\ table' = [j \in 1..Len(results) |-> CG_row(results[j])]
  /\ pc' = "report"
  /\ UNCHANGED <<pending, prog, latitude, longitude, obstacle_height, seasons, i,
                 results, raised, returned, call, prev>>

Next ==
  \/ CL_call
  \/ CL_step
  \/ CL_return
  \/ DS_step
  \/ GE_step
  \/ CG_step
  \/ CL_generate_html_report
  \/ DS_html_template
  \/ GE_html_content
  \/ CG_html

Spec == Init /\ [][Next]_vars

\* ------------------------------------------------------------------------
\* Single calls of the elevation and shadow-length functions
\* ------------------------------------------------------------------------
\* arguments of the calls.  A positive elevation is at least ElevStep: the
\* model's floats end at FMax, which the shadow of a sun lower than some
\* 0.06 degrees exceeds
DeclStep == 12 * S
MaxDeclIdx == 2
HourStep == 90 * S
MaxHourIdx == 1
ElevStep == 15 * S
MaxElevIdx == 6
\* 0.001 degrees
Resolution == S \div 1000

DayStep == 100
MaxDayIdx == 2
\* days of the year, in 1..366 and outside
DaysOfYear == 1..366
ProbeDays ==
  DaysOfYear \cup {0, 367} \cup {1 - k * DayStep : k \in 0..MaxDayIdx}
    \cup {366 + k * DayStep : k \in 0..MaxDayIdx}
\* days and months, of dates and of no dates
ProbeDias == {0, 1, 21, 29, 31, 32}
ProbeMeses == {0, 2, 6, 12, 13}
ProbeHeights == {ReferenceHeight} \cup {k * HeightStep : k \in (-1)..MaxHeightIdx}
\* the amplitude of the declination, 23.45 degrees
MaxDeclination == 2345 * 10^4
ProbeDeclinations ==
  {k * DeclStep : k \in (-MaxDeclIdx)..MaxDeclIdx}
    \cup {-MaxDeclination, MaxDeclination}
ProbeHourAngles == {k * HourStep : k \in (-MaxHourIdx)..MaxHourIdx}
ProbeElevations ==
  {k * ElevStep : k \in (-MaxElevIdx)..MaxElevIdx}
    \cup {-1}
    \cup {k * ElevStep + o : k \in 1..MaxElevIdx, o \in {1, Resolution}}

\* an angle of so many degrees as variant p takes it: GE works in radians
InUnit(p, deg) == IF p = "GE" THEN radians(deg) ELSE deg

\* the declination function of variant p
DeclinationOf(p, day) ==
  IF p = "CL" THEN solar_declination(day) ELSE calcular_declinacao_solar(day)

\* the elevation function of variant p
ElevationOf(p, lat, decl, ha) ==
  IF p = "CL" THEN solar_elevation(lat, decl, ha)
  ELSE IF p = "DS" THEN calcular_elevacao_solar(lat, decl, ha)
  ELSE IF p = "GE" THEN calculate_solar_elevation(lat, decl, ha)
  ELSE Ok(elevacao_solar(lat, decl))

\* the shadow-length function of variant p
ShadowOf(p, h, e) ==
  IF p = "CL" THEN shadow_length(h, e)
  ELSE IF p = "DS" THEN calcular_comprimento_sombra(h, e)
  ELSE IF p = "GE" THEN calculate_shadow_length(h, e)
  ELSE comprimento_sombra(h, e)

InitFn ==
  /\ prog \in Progs
  /\ latitude = ReferenceLatitude
  /\ longitude = ReferenceLongitude
  /\ obstacle_height \in ProbeHeights
  /\ seasons = SeasonsOf(prog)
  /\ pc = "call"
  /\ i = 0
  /\ results = <<>>
  /\ raised = "none"
  /\ returned = <<>>
  /\ call = NoCall
  /\ prev = NoCall
  /\ pending = <<>>
  /\ table = <<>>

\* the elevation function is called; CG's takes no hour angle
Call_elevation ==
  /\ pc = "call" /\ call = NoCall
  /\ \E lat \in Latitudes, decl \in ProbeDeclinations, ha \in ProbeHourAngles :
       /\ prog = "CG" => ha = 0
       /\ call' = [fn |-> "elevation", lat |-> lat,
                   decl |-> InUnit(prog, decl), ha |-> InUnit(prog, ha),
                   out |-> ElevationOf(prog, lat, InUnit(prog, decl),
                                       InUnit(prog, ha))]
  /\ UNCHANGED <<table, pending, prog, latitude, longitude, obstacle_height, seasons, pc, i,
                 results, raised, returned, prev>>

\* the shadow-length function is called with the elevation just computed
Call_shadow_of_elevation ==
  /\ pc = "call" /\ call.fn = "elevation" /\ call.out.raised = "none"
  /\ call' = [fn |-> "shadow_length", of |-> "elevation", lat |-> call.lat,
              decl |-> call.decl, ha |-> call.ha, e |-> call.out.value,
              out |-> ShadowOf(prog, obstacle_height, call.out.value)]
  /\ prev' = call
  /\ UNCHANGED <<table, pending, prog, latitude, longitude, obstacle_height, seasons, pc, i,
                 results, raised, returned>>

\* the shadow-length function is called with a given elevation, once or twice
Call_shadow_length ==
  /\ pc = "call"
  /\ \/ call = NoCall
     \/ call.fn = "shadow_length" /\ call.of = "input" /\ prev = NoCall
  /\ \E e \in ProbeElevations :
       call' = [fn |-> "shadow_length", of |-> "input", e |-> InUnit(prog, e),
                out |-> ShadowOf(prog, obstacle_height, InUnit(prog, e))]
  /\ prev' = call
  /\ UNCHANGED <<table, pending, prog, latitude, longitude, obstacle_height, seasons, pc, i,
                 results, raised, returned>>

\* the declination function of CL, DS or GE is called
Call_declination ==
  /\ pc = "call" /\ call = NoCall /\ prog # "CG"
  /\ \E n \in ProbeDays :
       call' = [fn |-> "declination", day |-> n,
                out |-> Ok(IF prog = "GE" THEN calculate_solar_declination(n)
                           ELSE DeclinationOf(prog, n))]
  /\ UNCHANGED <<table, pending, prog, latitude, longitude, obstacle_height, seasons,
                 pc, i, results, raised, returned, prev>>

\* CG's declinacao_solar is called
Call_declinacao_solar ==
  /\ pc = "call" /\ call = NoCall /\ prog = "CG"
  /\ \E dia \in ProbeDias, mes \in ProbeMeses :
       call' = [fn |-> "declination", dia |-> dia, mes |-> mes,
                out |-> declinacao_solar(dia, mes)]
  /\ UNCHANGED <<table, pending, prog, latitude, longitude, obstacle_height, seasons,
                 pc, i, results, raised, returned, prev>>

\* elevations GE's clamped elevation function can return, in degrees
ScaleElevations == {e \in ProbeElevations : e >= 0 /\ e % (3 * ElevStep) = 0}

scaling_step_unfiltered(m, length) == Max(m, length)

\* if length != float('inf'): max_shadow_for_scaling = max(..., length)
scaling_step(m, length) == IF length # INF THEN Max(m, length) ELSE m

\* if max_shadow_for_scaling == 0: max_shadow_for_scaling = obstacle_height * 2
scaling_fallback(m, obstacle_height_) == IF m = 0 THEN obstacle_height_ * 2 ELSE m

\* the scaling loop over the four values of shadow_results
max_shadow_for_scaling(values, obstacle_height_) ==
  scaling_fallback(
    scaling_step(scaling_step(scaling_step(scaling_step(0, values[1]),
                                           values[2]), values[3]), values[4]),
    obstacle_height_)

\* the record of a run of the scaling loop and of the chart's division
ScalingCall(values, scale) ==
  [fn |-> "max_shadow_for_scaling", lengths |-> values, out |-> scale,
   tick |-> truediv(scale, scale)]

\* GE: the scaling loop runs over shadow lengths of four elevations
Call_max_shadow_for_scaling ==
  /\ pc = "call" /\ call = NoCall /\ prog = "GE"
  /\ \E es \in [1..4 -> ScaleElevations] :
       \E values \in {[j \in 1..4 |->
                        calculate_shadow_length(obstacle_height,
                                                radians(es[j])).value]} :
         call' = ScalingCall(values,
                             max_shadow_for_scaling(values, obstacle_height))
  /\ UNCHANGED <<table, pending, prog, latitude, longitude, obstacle_height,
                 seasons, pc, i, results, raised, returned, prev>>

\* the entries gerar_diagrama_sombra plots: those it does not skip
Plotted(values) == {j \in 1..Len(values) : values[j] # INF}

\* max() of a list: ValueError when the list is empty
max_of(xs) ==
  IF xs = {} THEN Raise("ValueError")
  ELSE Ok(CHOOSE x \in xs : \A y \in xs : y <= x)

\* the argument of ax.set_xlim: max([r["comprimento_sombra"]/5 ...]) + 1
diagram_xlim(m) == IF m.raised # "none" THEN m ELSE Ok(m.value + S)

gerar_diagrama_sombra(values) ==
  [fn |-> "gerar_diagrama_sombra", lengths |-> values,
   plotted |-> Plotted(values),
   out |-> diagram_xlim(max_of({FDiv(values[j], 5 * S) : j \in Plotted(values)}))]

\* DS: gerar_diagrama_sombra is called with the shadows of four elevations
Call_gerar_diagrama_sombra ==
  /\ pc = "call" /\ call = NoCall /\ prog = "DS"
  /\ \E es \in [1..4 -> ScaleElevations] :
       call' = gerar_diagrama_sombra(
                 [j \in 1..4 |->
                    calcular_comprimento_sombra(obstacle_height, es[j]).value])
  /\ UNCHANGED <<table, pending, prog, latitude, longitude, obstacle_height,
                 seasons, pc, i, results, raised, returned, prev>>

\* degrees, minutes, seconds and directions of a coordinate; the seconds of
\* the reference site are 21.3 and 21.4
ProbeDegrees == {0, 21, 48}
ProbeMinutes == {0, 6, 44}
ProbeSeconds == {0, 21300000, 21400000}
ProbeDirections == {"N", "S", "E", "W", "s", ""}

dms_to_decimal_unsigned(degrees_, minutes, seconds, direction) ==
  degrees_ * S + IntDiv(minutes, 60) + TimesOver(seconds, 1, 3600)

\* GE: dms_to_decimal
dms_to_decimal(degrees_, minutes, seconds, direction) ==
  IF direction \in {"S", "W"}
  THEN -(degrees_ * S + IntDiv(minutes, 60) + TimesOver(seconds, 1, 3600))
  ELSE degrees_ * S + IntDiv(minutes, 60) + TimesOver(seconds, 1, 3600)

\* DS: graus_para_decimal, decimal *= -1
graus_para_decimal(graus, minutos, segundos, direcao) ==
  (graus * S + IntDiv(minutos, 60) + TimesOver(segundos, 1, 3600))
    * (IF direcao \in {"S", "W"} THEN -1 ELSE 1)

\* CL: SolarShadowAnalyzer.dms_to_decimal, decimal = -decimal
CL_dms_to_decimal(degrees_, minutes, seconds, direction) ==
  IF direction \in {"S", "W"}
  THEN 0 - (degrees_ * S + IntDiv(minutes, 60) + TimesOver(seconds, 1, 3600))
  ELSE degrees_ * S + IntDiv(minutes, 60) + TimesOver(seconds, 1, 3600)

\* CG: latitude_deg = -(21 + 44/60 + 21.3/3600)
CG_latitude_deg == -(21 * S + IntDiv(44, 60) + TimesOver(21300000, 1, 3600))

\* CL, main: lat_decimal = -21 - 44/60 - 21.3/3600
CL_lat_decimal == -21 * S - IntDiv(44, 60) - TimesOver(21300000, 1, 3600)

\* the conversion function of variant p
DecimalOf(p, d, m, s, dir) ==
  IF p = "CL" THEN CL_dms_to_decimal(d, m, s, dir)
  ELSE IF p = "DS" THEN graus_para_decimal(d, m, s, dir)
  ELSE dms_to_decimal(d, m, s, dir)

\* the conversion function of CL, DS or GE is called
Call_dms_to_decimal ==
  /\ pc = "call" /\ call = NoCall /\ prog # "CG"
  /\ \E d \in ProbeDegrees, m \in ProbeMinutes, s \in ProbeSeconds,
        dir \in ProbeDirections :
       call' = [fn |-> "dms_to_decimal", d |-> d, m |-> m, s |-> s,
                direction |-> dir, out |-> DecimalOf(prog, d, m, s, dir)]
  /\ UNCHANGED <<table, pending, prog, latitude, longitude, obstacle_height,
                 seasons, pc, i, results, raised, returned, prev>>

\* one iteration of the loop of variant p
IterationOf(p, season, lat, lon, h) ==
  IF p = "CL" THEN CL_iteration(season, lat, h)
  ELSE IF p = "DS" THEN DS_iteration(season, lat, h)
  ELSE IF p = "GE" THEN GE_iteration(season, lat, lon, h)
  ELSE CG_iteration(season, lat, h)

\* the month and the day of the month of day n of 2025
MesOf(n) ==
  IF n > 365 THEN 12
  ELSE CHOOSE mes \in 1..12 : DaysBefore[mes] < n /\ n <= DaysBefore[mes] + MonthDays[mes]
DiaOf(n) == n - DaysBefore[MesOf(n)]

\* a reference point for day n of the year
PointOfDay(n) ==
  [label |-> "", info |-> "", day |-> n, dia |-> DiaOf(n), mes |-> MesOf(n)]

\* the declination of day n in degrees, as variant p computes it
DegreesOfDay(p, n) ==
  IF p = "GE" THEN degrees(calculate_solar_declination(n)) ELSE Cooper(n)

\* 66.5 degrees
PolarLimit == 665 * 10^5

\* sites between the polar circles: on them, the reference site, and where
\* the sun of day n is overhead
NoonLatitudes(p, n) ==
  {-PolarLimit, PolarLimit, ReferenceLatitude, DegreesOfDay(p, n)}

\* the body of the loop is run for a day of the year at such a site
Call_iteration ==
  /\ pc = "call" /\ call = NoCall /\ obstacle_height = ReferenceHeight
  /\ \E n \in DaysOfYear :
       \E lat \in NoonLatitudes(prog, n) :
         /\ prog = "CG" => n <= 365
         /\ call' = [fn |-> "iteration", lat |-> lat, day |-> n,
                     out |-> IterationOf(prog, PointOfDay(n), lat, longitude,
                                         obstacle_height)]
  /\ UNCHANGED <<table, pending, prog, latitude, longitude, obstacle_height,
                 seasons, pc, i, results, raised, returned, prev>>

NextFn ==
  \/ Call_elevation
  \/ Call_shadow_of_elevation
  \/ Call_shadow_length
  \/ Call_declination
  \/ Call_declinacao_solar
  \/ Call_max_shadow_for_scaling
  \/ Call_gerar_diagrama_sombra
  \/ Call_dms_to_decimal
  \/ Call_iteration

SpecFn == InitFn /\ [][NextFn]_vars

\* ------------------------------------------------------------------------
\* Properties
\* ------------------------------------------------------------------------
GuardedVariants == {"CL", "DS", "GE"}

ShadowCall(c) == c.fn = "shadow_length"

\* C1: in CL, DS and GE the shadow-length function returns the infinite
\* sentinel for every elevation <= 0 (zero and negative alike), whatever the
\* height, and evaluates no division on the way.
C1_InfiniteAtOrBelowHorizon ==
  (ShadowCall(call) /\ prog \in GuardedVariants /\ call.e <= 0)
    => (call.out.raised = "none" /\ call.out.value = INF /\ ~call.out.divided)

\* C1 has acted: a guarded variant was called at elevation 0 and then at a
\* negative elevation, with height 0
C1_Witness ==
  /\ prog \in GuardedVariants /\ obstacle_height = 0
  /\ ShadowCall(prev) /\ prev.e = 0
  /\ ShadowCall(call) /\ call.e < 0 /\ call.out.value = INF

\* C2 as the specification states it: CG's comprimento_sombra answers every
\* elevation <= 0 with the infinite sentinel, never raising ZeroDivisionError
\* and never returning the quotient it computed.
C2_SentinelAtOrBelowHorizon ==
  (ShadowCall(call) /\ prog = "CG" /\ call.e <= 0)
    => (call.out.raised = "none" /\ call.out.value = INF /\ ~call.out.divided)

\* the elevations C3 speaks of: positive noon elevations, at most 90 degrees,
\* of a site between the polar circles, with a positive height
C3_Domain(c) ==
  /\ prog \in GuardedVariants /\ obstacle_height > 0
  /\ c.e > 0 /\ c.e <= InUnit(prog, 90 * S)
  /\ c.of = "elevation" => (c.ha = 0 /\ Abs(c.lat) <= 66500000)

C4_NeverDomainError ==
  (call.fn = "elevation" /\ prog \in GuardedVariants) => call.out.raised = "none"

\* the day of the year of a reference point of variant p
DayOf(p, season) ==
  IF p = "CG" THEN DayOfYear2025(season.dia, season.mes).value ELSE season.day

\* the stored shadow lengths, and elevations, of the reference points of day n
ShadowsOfDay(n) ==
  {results[j].shadow_length : j \in {k \in 1..Len(results) : DayOf(prog, seasons[k]) = n}}
ElevationsOfDay(n) ==
  {results[j].elevation : j \in {k \in 1..Len(results) : DayOf(prog, seasons[k]) = n}}

CooperDegreesVariants == {"CG", "CL", "DS"}

\* the report's example: latitude -21.74, height 1.65 m, Cooper in degrees
C5_Example ==
  /\ prog \in CooperDegreesVariants
  /\ latitude = RoundedLatitude /\ obstacle_height = ReferenceHeight

C6_WinterNoonElevation ==
  latitude = ReferenceLatitude =>
    \A x \in ElevationsOfDay(172) : 44800000 <= x /\ x <= 45900000

\* C6 has acted: GE stored the elevation of day 172 at the reference site
C6_Witness ==
  prog = "GE" /\ latitude = ReferenceLatitude /\ ElevationsOfDay(172) # {}

\* C7: after k reference points the results hold the first k labels, in the
\* order of the reference points; the order never changes afterwards.
C7_InputOrder == Labels(results) = SubSeq(Labels(seasons), 1, i)

\* C7 has acted: a run stored all four reference points, and the shadows it
\* computed are not in ascending order
C7_Witness ==
  /\ i = Len(seasons) /\ Len(results) = Len(seasons)
  /\ \E j \in 1..(Len(results) - 1) :
       results[j].shadow_length > results[j + 1].shadow_length

\* the solstice or equinox of a day of the year
SeasonAt(n) ==
  IF n = 355 THEN "summer"
  ELSE IF n \in 79..80 THEN "autumn"
  ELSE IF n = 172 THEN "winter"
  ELSE IF n \in 265..266 THEN "spring"
  ELSE "none"

\* the order in which a run iterates
IterationOrder == [j \in 1..Len(seasons) |-> SeasonAt(DayOf(prog, seasons[j]))]

\* C8 as stated: every variant iterates summer, autumn, winter, spring, and
\* reports the four in the order it iterated.
C8_CanonicalOrder ==
  /\ IterationOrder = <<"summer", "autumn", "winter", "spring">>
  /\ Len(results) = Len(seasons) => Labels(results) = Labels(seasons)

\* C8, amended: CG and CL iterate summer, autumn, winter, spring, DS and GE
\* iterate summer, winter, spring, autumn, and each reports the four in the
\* order it iterated.
C8_OrderOfEachVariant ==
  /\ prog \in {"CG", "CL"} =>
       IterationOrder = <<"summer", "autumn", "winter", "spring">>
  /\ prog \in {"DS", "GE"} =>
       IterationOrder = <<"summer", "winter", "spring", "autumn">>
  /\ Len(results) = Len(seasons) => Labels(results) = Labels(seasons)

\* C8 has acted: DS stored all four reference points
C8_Witness == prog = "DS" /\ Len(results) = Len(seasons) /\ i = Len(seasons)

\* C9: every call of calculate_seasonal_shadows returns what the call before
\* it returned.
C9_RepeatedCallsAgree ==
  \A n \in 1..(Len(returned) - 1) : returned[n + 1] = returned[n]

\* C9 has acted: the method returned twice, four entries each time
C9_Witness ==
  /\ prog = "CL" /\ Len(returned) >= 2
  /\ Len(returned[1]) = Len(seasons) /\ Len(returned[2]) = Len(seasons)

\* C10: in CL, DS and GE every stored elevation was evaluated at hour angle 0,
\* wherever the site is.
C10_SolarNoon ==
  prog \in GuardedVariants =>
    \A j \in 1..Len(results) : results[j].hour_angle = 0

\* C10 has acted: GE stored all four reference points for a site off the
\* standard meridian
C10_Witness ==
  /\ prog = "GE" /\ longitude # -45 * S /\ Len(results) = Len(seasons)
  /\ \A j \in 1..Len(results) : results[j].hour_angle = 0

\* the entries a run of variant p stores for its first k reference points at
\* a site of the given latitude and longitude
EntriesAt(p, k, lat, lon, h) ==
  [j \in 1..k |->
     IF p = "GE" THEN GE_iteration(seasons[j], lat, lon, h).entry
     ELSE CL_iteration(seasons[j], lat, h).entry]

\* C11: in CL and GE the stored declination, elevation and shadow length are
\* those of a run at any other longitude with the same latitude and height.
C11_LongitudeUnused ==
  prog \in {"CL", "GE"} =>
    \A lon \in Longitudes :
      results = EntriesAt(prog, Len(results), latitude, lon, obstacle_height)

\* C11 has acted: GE stored all four reference points for a site that is not
\* at the reference longitude
C11_Witness ==
  /\ prog = "GE" /\ longitude # ReferenceLongitude
  /\ Len(results) = Len(seasons) /\ results[1].shadow_length < INF

\* the declination, elevation and shadow length the three steps of variant p
\* give for one reference point
CL_three_steps(data, lat, h) ==
  [declination |-> solar_declination(data.day),
   elevation |-> solar_elevation(lat, solar_declination(data.day),
                                 solar_elevation_hour_angle).value,
   shadow_length |->
     shadow_length(h, solar_elevation(lat, solar_declination(data.day),
                                      solar_elevation_hour_angle).value).value]

DS_three_steps(info, lat, h) ==
  [declination |-> calcular_declinacao_solar(info.day),
   elevation |-> calcular_elevacao_solar(lat, calcular_declinacao_solar(info.day), 0).value,
   shadow_length |->
     calcular_comprimento_sombra(h,
       calcular_elevacao_solar(lat, calcular_declinacao_solar(info.day), 0).value).value]

GE_three_steps(season, lat, lon, h) ==
  [declination |-> degrees(calculate_solar_declination(season.day)),
   elevation |->
     degrees(calculate_solar_elevation(lat, calculate_solar_declination(season.day),
               calculate_hour_angle(12 * S, lon, -45 * S)).value),
   shadow_length |->
     calculate_shadow_length(h,
       calculate_solar_elevation(lat, calculate_solar_declination(season.day),
         calculate_hour_angle(12 * S, lon, -45 * S)).value).value]

CG_three_steps(estacao, lat, h) ==
  [declination |-> declinacao_solar(estacao.dia, estacao.mes).value,
   elevation |-> elevacao_solar(lat, declinacao_solar(estacao.dia, estacao.mes).value),
   shadow_length |->
     comprimento_sombra(h,
       elevacao_solar(lat, declinacao_solar(estacao.dia, estacao.mes).value)).value]

ThreeSteps(p, season, lat, lon, h) ==
  IF p = "CL" THEN CL_three_steps(season, lat, h)
  ELSE IF p = "DS" THEN DS_three_steps(season, lat, h)
  ELSE IF p = "GE" THEN GE_three_steps(season, lat, lon, h)
  ELSE CG_three_steps(season, lat, h)

\* the results stored under a label
Under(label) == {j \in 1..Len(results) : results[j].label = label}

\* entry j holds what the three steps give for reference point k
HoldsStepsOf(j, k) ==
  [declination |-> results[j].declination, elevation |-> results[j].elevation,
   shadow_length |-> results[j].shadow_length]
    = ThreeSteps(prog, seasons[k], latitude, longitude, obstacle_height)

\* C12: when the loop has consumed every reference point, the results hold
\* one entry per reference point and no other, and the entry of each label
\* holds the declination, elevation and shadow length of that label's own day.
C12_OneResultPerReferencePoint ==
  i = Len(seasons) =>
    /\ Len(results) = Len(seasons)
    /\ \A k \in 1..Len(seasons) :
         /\ Cardinality(Under(seasons[k].label)) = 1
         /\ \A j \in Under(seasons[k].label) : HoldsStepsOf(j, k)

\* C12 has acted: CG finished its loop with four entries
C12_Witness ==
  /\ prog = "CG" /\ i = Len(seasons) /\ Len(results) = 4
  /\ \A k \in 1..4 : Cardinality(Under(seasons[k].label)) = 1

\* ------------------------------------------------------------------------
\* The reference points of CL and DS processed in any order, their steps
\* interleaved
\* ------------------------------------------------------------------------
IndependentVariants == {"CL", "DS"}

LastPoint(k) == seasons[Len(seasons)]

\* the reference point computation k works on
OwnPoint(k) == seasons[k]

InitAnyOrder ==
  /\ prog \in IndependentVariants
  /\ latitude \in Latitudes
  /\ longitude = ReferenceLongitude
  /\ obstacle_height = ReferenceHeight
  /\ seasons = SeasonsOf(prog)
  /\ pc = "tasks"
  /\ i = 0
  /\ results = <<>>
  /\ raised = "none"
  /\ returned = <<>>
  /\ call = NoCall
  /\ prev = NoCall
  /\ pending = [k \in 1..Len(SeasonsOf(prog)) |-> [stage |-> "new"]]
  /\ table = <<>>

\* step 1 of some reference point: its declination
Task_declination ==
  /\ pc = "tasks"
  /\ \E k \in 1..Len(pending) :
       /\ pending[k].stage = "new"
       /\ pending' = [pending EXCEPT ![k] =
            [stage |-> "declination",
             declination |-> DeclinationOf(prog, OwnPoint(k).day)]]
  /\ UNCHANGED <<table, prog, latitude, longitude, obstacle_height, seasons, pc, i,
                 results, raised, returned, call, prev>>

\* step 2 of some reference point: its noon elevation
Task_elevation ==
  /\ pc = "tasks"
  /\ \E k \in 1..Len(pending) :
       /\ pending[k].stage = "declination"
       /\ pending' = [pending EXCEPT ![k] =
            [stage |-> "elevation", declination |-> pending[k].declination,
             elevation |-> ElevationOf(prog, latitude, pending[k].declination, 0)]]
  /\ UNCHANGED <<table, prog, latitude, longitude, obstacle_height, seasons, pc, i,
                 results, raised, returned, call, prev>>

\* step 3 of some reference point: its shadow length, and the entry stored
Task_shadow ==
  /\ pc = "tasks"
  /\ \E k \in 1..Len(pending) :
       /\ pending[k].stage = "elevation"
       /\ Iterate(Entry(seasons[k].label, seasons[k].info, pending[k].declination,
                        0, pending[k].elevation,
                        ShadowOf(prog, obstacle_height, pending[k].elevation.value)))
       /\ pending' = [pending EXCEPT ![k] = [stage |-> "done"]]
  /\ UNCHANGED <<table, prog, latitude, longitude, obstacle_height, seasons, returned,
                 call, prev>>

NextAnyOrder ==
  \/ Task_declination
  \/ Task_elevation
  \/ Task_shadow

SpecAnyOrder == InitAnyOrder /\ [][NextAnyOrder]_vars

IsDate2025(dia, mes) == mes \in 1..12 /\ dia \in 1..MonthDays[mes]

\* a height <= 0 makes the shadow-length function raise nothing that it does
\* not raise for the reference height
C14_HeightNotValidated ==
  (ShadowCall(call) /\ obstacle_height <= 0
     /\ ShadowOf(prog, ReferenceHeight, call.e).raised = "none")
    => call.out.raised = "none"

OtherDeclination(p, n) ==
  IF p = "GE" THEN Cooper(n) ELSE degrees(calculate_solar_declination(n))

\* the declination a call returned, in degrees
DeclinationDegrees(p, c) ==
  IF p = "GE" THEN degrees(c.out.value) ELSE c.out.value

\* C15: for every day of the year n in 1..366 the declination of the
\* degrees-based formula 23.45*sin(360*(284+n)/365) and that of the
\* radian-based formula 0.409*sin(2*pi*n/365 - 1.39), in degrees, differ by at
\* most 0.5 degrees.
C15_FormulasAgree ==
  (call.fn = "declination" /\ prog # "CG" /\ call.day \in DaysOfYear)
    => Abs(DeclinationDegrees(prog, call) - OtherDeclination(prog, call.day))
         <= S \div 2

\* C15 has acted: both formulas were compared at the June solstice, where
\* they differ, by less than 0.5 degrees
C15_Witness ==
  /\ call.fn = "declination" /\ prog = "GE" /\ call.day = 172
  /\ DeclinationDegrees(prog, call) # OtherDeclination(prog, call.day)
  /\ DeclinationDegrees(prog, call) > 23 * S

\* the shadow GE computes for a latitude, declination and hour angle given in
\* degrees: its elevation is clamped at 0
GE_clamped_shadow(lat, decl, ha, h) ==
  calculate_shadow_length(h,
    calculate_solar_elevation(lat, radians(decl), radians(ha)).value)

\* two shadow lengths are the same outcome: both INFINITE, or both finite and
\* equal up to the resolution of the lengths
SameOutcome(a, b) ==
  /\ a.raised = "none" /\ b.raised = "none"
  /\ (a.value = INF) = (b.value = INF)
  /\ Abs(a.value - b.value) <= Resolution

\* GE's elevation is never negative, and 0 where the propagated one is <= 0
C16_ClampedAtZero ==
  (call.fn = "elevation" /\ prog = "GE") =>
    /\ call.out.raised = "none" /\ call.out.value >= 0
    /\ (call.out.value = 0) =
         (asin(Max(-S, Min(S, sin_alpha(radians(call.lat), call.decl, call.ha)))).value <= 0)

\* where CL or DS return an elevation, its shadow and GE's are the same outcome
C16_AgreeWhereReturned ==
  (call.fn = "elevation" /\ prog \in IndependentVariants
     /\ call.out.raised = "none") =>
    SameOutcome(ShadowOf(prog, obstacle_height, call.out.value),
                GE_clamped_shadow(call.lat, call.decl, call.ha, obstacle_height))

\* C16 as stated: clamping the elevation at 0 (GE) and propagating a negative
\* elevation (CL, DS) give the same shadow for every latitude, declination
\* and hour angle: INFINITE in the one exactly when in the other, the same
\* length otherwise.
C16_SamePolicyOutcome ==
  /\ C16_ClampedAtZero
  /\ (call.fn = "elevation" /\ prog \in IndependentVariants) =>
       call.out.raised = "none"
  /\ C16_AgreeWhereReturned

\* the texts a report shows in place of a shadow length
InfiniteTexts ==
  {"Infinita (Sol abaixo do horizonte)", "Sombra infinita (Sol abaixo do horizonte)"}

\* the texts of a shadow length formatted as a number of metres
NumberTexts == {"%.2f m", "%.2f metros"}

\* the shadow lengths the table was built from
Reported == IF prog = "CL" THEN returned[Len(returned)] ELSE results

\* C17 as stated: in the table of results of every variant, the row of a
\* season whose shadow length is the INFINITE sentinel shows a text that says
\* so and never a formatted number, and the row of a finite shadow shows a
\* number.
C17_SentinelShownAsText ==
  pc = "report" =>
    \A j \in 1..Len(table) :
      IF Reported[j].shadow_length = INF
      THEN table[j].shadow.text \in InfiniteTexts
      ELSE table[j].shadow.text \in NumberTexts

\* the same of DS and GE, which test for the sentinel
C17_SentinelShownAsTextWhereTested ==
  prog \in {"DS", "GE"} => C17_SentinelShownAsText

\* the calendar dates the reference points stand for, in the order of the
\* variant's table, and the year the variant gives for them
CL_dates ==
  << [dia |-> 21, mes |-> 12], [dia |-> 21, mes |-> 3],
     [dia |-> 21, mes |-> 6], [dia |-> 23, mes |-> 9] >>
CL_dates_year == 2024
DS_dates ==
  << [dia |-> 21, mes |-> 12], [dia |-> 21, mes |-> 6],
     [dia |-> 23, mes |-> 9], [dia |-> 20, mes |-> 3] >>
DS_dates_year == 2023
GE_dates ==
  << [dia |-> 21, mes |-> 12], [dia |-> 21, mes |-> 6],
     [dia |-> 22, mes |-> 9], [dia |-> 20, mes |-> 3] >>
CG_dates == [j \in 1..Len(estacoes) |-> [dia |-> estacoes[j].dia, mes |-> estacoes[j].mes]]
CG_dates_year == 2025

DatesOf(p) ==
  IF p = "CL" THEN CL_dates ELSE IF p = "DS" THEN DS_dates
  ELSE IF p = "GE" THEN GE_dates ELSE CG_dates

IsLeap(y) == y % 4 = 0 /\ (y % 100 # 0 \/ y % 400 = 0)

\* the ordinal day of a date in a year of 365 days, and in the year y
OrdinalInCommonYear(d) == DaysBefore[d.mes] + d.dia
Ordinal(y, d) ==
  OrdinalInCommonYear(d) + (IF IsLeap(y) /\ d.mes > 2 THEN 1 ELSE 0)

\* the ordinal day of a date of variant p in the year p gives; GE gives none
OrdinalInOwnYear(p, d) ==
  IF p = "CL" THEN Ordinal(CL_dates_year, d)
  ELSE IF p = "DS" THEN Ordinal(DS_dates_year, d)
  ELSE IF p = "CG" THEN Ordinal(CG_dates_year, d)
  ELSE OrdinalInCommonYear(d)

\* the days of the year the loop has fed to the declination formula
DaysFed == [j \in 1..i |-> DayOf(prog, seasons[j])]

first_by_shadow_length(d) == d[1]
min_by_shadow_length(d) ==
  d[CHOOSE j \in 1..Len(d) :
      /\ \A k \in 1..Len(d) : d[j].shadow_length <= d[k].shadow_length
      /\ \A k \in 1..(j - 1) : d[j].shadow_length < d[k].shadow_length]
max_by_shadow_length(d) ==
  d[CHOOSE j \in 1..Len(d) :
      /\ \A k \in 1..Len(d) : d[j].shadow_length >= d[k].shadow_length
      /\ \A k \in 1..(j - 1) : d[j].shadow_length > d[k].shadow_length]

\* the loop has run through at the reference site
AtReferenceSite ==
  /\ latitude = ReferenceLatitude /\ obstacle_height = ReferenceHeight
  /\ Len(results) = Len(seasons)

\* the stored shadow lengths of the equinoxes
ShadowsOfEquinoxes ==
  {results[j].shadow_length :
     j \in {k \in 1..Len(results) : DayOf(prog, seasons[k]) \notin {172, 355}}}

\* C19: at the reference site, in every variant, the shadow of the winter
\* solstice (day 172) is strictly the longest of the four and that of the
\* summer solstice (day 355) strictly the shortest, the equinoxes lying
\* strictly between; the max() and min() CL prints under the labels of the
\* two solstices are those seasons' shadows.
C19_SolsticesAreExtremes ==
  AtReferenceSite =>
    /\ \A w \in ShadowsOfDay(172), s \in ShadowsOfDay(355),
          e \in ShadowsOfEquinoxes : s < e /\ e < w /\ w < INF
    /\ ShadowsOfDay(172) # {} /\ ShadowsOfDay(355) # {}
    /\ ShadowsOfEquinoxes # {}
    /\ (prog = "CL" /\ pc = "report") =>
         /\ max_by_shadow_length(Reported).label = "Solsticio de Inverno"
         /\ min_by_shadow_length(Reported).label = "Solsticio de Verao"

\* C19 has acted: CL has built its report at the reference site
C19_Witness ==
  /\ AtReferenceSite /\ prog = "CL" /\ pc = "report"
  /\ max_by_shadow_length(Reported).shadow_length > ReferenceHeight

\* a call of the elevation function of CL or DS at hour angle 0 with a
\* declination the year reaches
C20_Domain ==
  /\ call.fn = "elevation" /\ prog \in IndependentVariants /\ call.ha = 0
  /\ Abs(call.decl) <= MaxDeclination

\* where CL or DS return an elevation at hour angle 0, it is CG's closed form
\* up to the rounding of the inverse sine, which is coarse near the zenith
C20_AgreeWhereReturned ==
  (C20_Domain /\ call.out.raised = "none") =>
    Abs(call.out.value - elevacao_solar(call.lat, call.decl)) <= S \div 100

\* C20 as stated: at hour angle 0 the elevation CL and DS compute with the
\* inverse sine is CG's closed form 90 - |latitude - declination|, for every
\* latitude in [-90, 90] and declination in [-23.45, 23.45] degrees, a
\* negative result included.
C20_ClosedFormAgrees ==
  /\ C20_Domain => call.out.raised = "none"
  /\ C20_AgreeWhereReturned

\* the reference points CL's loop has consumed
CL_consumed == IF prog = "CL" /\ pc = "loop" THEN 1..i ELSE {}

FiniteLengths(c) == {c.lengths[j] : j \in {k \in 1..Len(c.lengths) : c.lengths[k] # INF}}

\* C22: in GE, for an obstacle height > 0, max_shadow_for_scaling is finite
\* and > 0 after the scaling loop: the largest finite shadow length if there
\* is one, twice the obstacle height if all four are INFINITE, never
\* INFINITE; the chart's division by it does not divide by zero.
C22_ScaleFiniteAndPositive ==
  (call.fn = "max_shadow_for_scaling" /\ obstacle_height > 0) =>
    /\ call.out > 0 /\ call.out < INF
    /\ FiniteLengths(call) # {} =>
         /\ call.out \in FiniteLengths(call)
         /\ \A x \in FiniteLengths(call) : x <= call.out
    /\ FiniteLengths(call) = {} => call.out = obstacle_height * 2
    /\ call.tick.raised = "none"

\* C22 has acted: all four shadows were INFINITE and the fallback was taken
C22_Witness ==
  /\ call.fn = "max_shadow_for_scaling" /\ obstacle_height = ReferenceHeight
  /\ FiniteLengths(call) = {} /\ call.out = 2 * ReferenceHeight

\* a finite shadow was the scale while another was INFINITE
C22_WitnessMixed ==
  /\ call.fn = "max_shadow_for_scaling" /\ obstacle_height = ReferenceHeight
  /\ FiniteLengths(call) # {} /\ \E j \in 1..4 : call.lengths[j] = INF
  /\ call.out \in FiniteLengths(call) /\ call.out > ReferenceHeight \div 2

\* the diagram leaves the infinite shadows out, of the plot and of the limit
\* of the x axis
C23_InfiniteLeftOut ==
  call.fn = "gerar_diagrama_sombra" =>
    /\ \A j \in 1..Len(call.lengths) :
         (j \in call.plotted) = (call.lengths[j] # INF)
    /\ call.out.raised = "none" => call.out.value < INF

\* the diagram is drawn if one shadow at least is finite
C23_CompletesWithAFiniteShadow ==
  (call.fn = "gerar_diagrama_sombra" /\ call.plotted # {}) =>
    call.out.raised = "none"

\* C23 as stated: gerar_diagrama_sombra leaves the infinite shadows out of
\* the diagram and of the x-axis limit and raises nothing, whatever the
\* results, all four shadows INFINITE included.
C23_DiagramCompletes ==
  /\ C23_InfiniteLeftOut
  /\ call.fn = "gerar_diagrama_sombra" => call.out.raised = "none"

\* d + m/60 + s/3600, in millionths of a degree
Magnitude(c) == c.d * S + IntDiv(c.m, 60) + TimesOver(c.s, 1, 3600)

\* C24: the conversion of degrees, minutes and seconds returns
\* -(d + m/60 + s/3600) for the directions 'S' and 'W' and +(d + m/60 +
\* s/3600) for every other; CL's, DS's and GE's functions return the same for
\* the same arguments; the inline conversions of CG and of CL's main give
\* what the functions give for 21 deg 44 min 21.3 s S, a negative latitude.
C24_SignedDecimal ==
  call.fn = "dms_to_decimal" =>
    /\ call.out = (IF call.direction \in {"S", "W"} THEN -Magnitude(call)
                   ELSE Magnitude(call))
    /\ \A p \in {"CL", "DS", "GE"} :
         DecimalOf(p, call.d, call.m, call.s, call.direction) = call.out
    /\ (call.d = 21 /\ call.m = 44 /\ call.s = 21300000 /\ call.direction = "S")
         => /\ call.out = CG_latitude_deg /\ call.out = CL_lat_decimal
            /\ call.out = ReferenceLatitude /\ call.out < 0

\* C24 has acted: the reference latitude was converted
C24_Witness ==
  /\ call.fn = "dms_to_decimal" /\ prog = "GE"
  /\ call.d = 21 /\ call.m = 44 /\ call.s = 21300000 /\ call.direction = "S"
  /\ call.out = ReferenceLatitude

\* the greatest declination of variant p: 23.45 degrees, 0.409 radians in GE
ObliquityOf(p) == IF p = "GE" THEN 409000 ELSE MaxDeclination

\* C25: for every integer day of the year the declination is within the
\* obliquity: in [-23.45, 23.45] degrees by the degrees-based formula (CG,
\* CL, DS), in [-0.409, 0.409] radians by the radian-based one (GE).
C25_WithinObliquity ==
  (call.fn = "declination" /\ call.out.raised = "none") =>
    Abs(call.out.value) <= ObliquityOf(prog)

\* C25 has acted: the declination of the June solstice, close to the bound,
\* was computed
C25_Witness ==
  /\ call.fn = "declination" /\ prog = "DS" /\ call.day = 172
  /\ call.out.value > 23 * S /\ call.out.value <= MaxDeclination

\* and GE's, in radians
C25_WitnessRadians ==
  /\ call.fn = "declination" /\ prog = "GE" /\ call.day = 172
  /\ call.out.value > 400000 /\ call.out.value <= 409000

\* an iteration for a site between the polar circles stored a positive
\* elevation and a finite shadow that is not negative
PositiveNoon(c) ==
  /\ c.out.raised = "none"
  /\ c.out.entry.elevation > 0
  /\ c.out.entry.shadow_length >= 0 /\ c.out.entry.shadow_length < INF

\* what holds of every iteration that ends: the elevation is positive and
\* the shadow finite
C26_PositiveWhereReturned ==
  (call.fn = "iteration" /\ call.out.raised = "none") => PositiveNoon(call)

\* C26 as stated: for every latitude in [-66.5, 66.5] degrees and every day
\* of the year in 1..366 the noon elevation is > 0, so that the iteration
\* stores a finite shadow, never the INFINITE sentinel, and CG divides by no
\* zero and stores no negative length.
C26_NoonAboveHorizon ==
  call.fn = "iteration" => PositiveNoon(call)

\* the shadow-length function was called with the elevation the elevation
\* function of CL, DS or GE returned
HandedOn(c) == ShadowCall(c) /\ c.of = "elevation" /\ prog \in GuardedVariants

\* C27: in CL, DS and GE the elevation handed to the shadow-length function
\* is at most 90 degrees (pi/2 in GE), whatever the latitude, declination
\* and hour angle, so that for a height > 0 the shadow length is INFINITE or
\* a finite number >= 0, never negative.
C27_ShadowNeverNegative ==
  HandedOn(call) =>
    /\ call.e <= (IF prog = "GE" THEN HALF_PI ELSE 90 * S)
    /\ obstacle_height > 0 =>
         (call.out.raised = "none" /\ call.out.value >= 0)

\* C27 has acted: an elevation above 89 degrees was handed on and gave a
\* finite shadow that is not negative
C27_Witness ==
  /\ HandedOn(call) /\ obstacle_height = ReferenceHeight
  /\ call.e > InUnit(prog, 89 * S)
  /\ call.out.value >= 0 /\ call.out.value < INF

\* the shadow-length function was called with the elevation of the zenith
AtZenith(c) == ShadowCall(c) /\ c.e = InUnit(prog, 90 * S)

\* C28: with the sun overhead, at an elevation of exactly 90 degrees, the
\* shadow-length function of every variant raises nothing and returns a
\* finite length that is not negative, not the INFINITE sentinel.
C28_FiniteAtZenith ==
  (AtZenith(call) /\ obstacle_height >= 0) =>
    /\ call.out.raised = "none"
    /\ call.out.value >= 0 /\ call.out.value < INF
    /\ call.out.value <= obstacle_height \div 100

\* C28 has acted: CG's function was called at 90 degrees
C28_Witness ==
  /\ prog = "CG" /\ AtZenith(call) /\ obstacle_height = ReferenceHeight
  /\ call.out.raised = "none" /\ call.out.divided /\ call.out.value < INF

\* what a step of CL leaves alone: the fields the constructor set, and the
\* mappings returned so far; a call starts from a new, empty mapping
CL_frame ==
  prog = "CL" =>
    /\ <<latitude, longitude, obstacle_height, seasons>>'
         = <<latitude, longitude, obstacle_height, seasons>>
    /\ Len(returned') >= Len(returned)
    /\ \A k \in 1..Len(returned) : returned'[k] = returned[k]
    /\ (pc = "idle" /\ pc' = "loop") => results' = <<>>

\* C29: calculate_seasonal_shadows leaves the analyzer as the constructor
\* made it: latitude, longitude, obstacle_height and the seasons table
\* (labels, days, display names, order) keep their values through any number
\* of calls, and each call builds a new results mapping: it starts empty and
\* the mappings returned before stay as they were.
C29_AnalyzerUnchanged ==
  /\ [](prog = "CL" => seasons = CL_seasons)
  /\ [][CL_frame]_vars

\* C29 has acted: the method was called again after it had returned, and is
\* filling a second mapping while the first is complete
C29_Witness ==
  /\ prog = "CL" /\ pc = "loop" /\ Len(returned) = 1
  /\ Len(returned[1]) = Len(seasons) /\ Len(results) = 1
  /\ seasons = CL_seasons

====
